---- MODULE Spec2Model ----
(***************************************************************************)
(* Model of the "Would You Rather" voting backend (src/main.py).           *)
(*                                                                         *)
(* The shared state is the "prompt" collection behind the global handle    *)
(* db.  Requests are handled concurrently; every call on the collection    *)
(* (count_documents, insert_one, aggregate $sample, find_one_and_update,   *)
(* find/sort/limit, list_collection_names) is one atomic step, and the     *)
(* handler code between two calls runs together with the call after it.    *)
(***************************************************************************)
EXTENDS Integers, Sequences, FiniteSets, TLC

(* ----------------------------- bounds ---------------------------------- *)
\* number of requests the hosting layer runs at the same time
NumWorkers == 2
\* number of requests issued in one behaviour
MaxRequests == 3
\* number of requests in a behaviour of the seeding race (SpecRace)
MaxRaceRequests == 2

(* --------------------------- identifiers ------------------------------- *)
\* str(ObjectId) is 24 hexadecimal digits (12 bytes)
OidHexLen == 24
HexBase == 16

LowerHex == <<"0","1","2","3","4","5","6","7","8","9","a","b","c","d","e","f">>
UpperHex == <<"0","1","2","3","4","5","6","7","8","9","A","B","C","D","E","F">>

IsHexChar(c) == \E i \in 1..HexBase : LowerHex[i] = c \/ UpperHex[i] = c

HexVal(c) == (CHOOSE i \in 1..HexBase : LowerHex[i] = c \/ UpperHex[i] = c) - 1

RECURSIVE HexDigitsOf(_, _)
\* the w lowest hexadecimal digits of n, most significant first, lower case
HexDigitsOf(n, w) ==
    IF w = 0 THEN << >>
    ELSE Append(HexDigitsOf(n \div HexBase, w - 1), LowerHex[(n % HexBase) + 1])

\* str(oid): the canonical text form of an identifier
OidStr(oid) == HexDigitsOf(oid, OidHexLen)

\* variant: the length of the text is not checked
ObjectIdValid_AnyLength(s) == \A i \in 1..Len(s) : IsHexChar(s[i])

\* ObjectId(text) raises unless text is exactly 24 hexadecimal digits
ObjectIdValid(s) == Len(s) = OidHexLen /\ \A i \in 1..Len(s) : IsHexChar(s[i])

RECURSIVE HexValue(_)
HexValue(s) ==
    IF s = << >> THEN 0
    ELSE HexValue(SubSeq(s, 1, Len(s) - 1)) * HexBase + HexVal(s[Len(s)])

\* ObjectId(text) for a text that parses
ObjectIdOf(s) == HexValue(s)

\* variant: every document gets the same identifier
NewObjectId_Same(n) == 1

\* the identifier the driver generates for the n-th inserted document
NewObjectId(n) == n

(* ----------------------------- documents ------------------------------- *)
None == "None"

STARTER_PROMPTS == <<
    <<"be able to fly for a day", "turn invisible for a day">>,
    <<"eat pancakes for dinner", "eat pizza for breakfast">>,
    <<"have a pet dinosaur", "have a pet dragon">>,
    <<"swim with dolphins", "camp under the stars">>,
    <<"build a giant pillow fort", "have a massive water balloon fight">>,
    <<"never do homework again", "never do chores again">> >>

StarterPairs == {STARTER_PROMPTS[i] : i \in 1..Len(STARTER_PROMPTS)}

\* variant: the starter prompts carry no creator marker
SeedDoc_NoMarker(i) ==
    [option_a |-> STARTER_PROMPTS[i][1], option_b |-> STARTER_PROMPTS[i][2],
     category |-> "general", created_by |-> None, a_count |-> 0, b_count |-> 0]

\* the document _ensure_seeded inserts for the i-th starter pair
SeedDoc(i) ==
    [option_a |-> STARTER_PROMPTS[i][1], option_b |-> STARTER_PROMPTS[i][2],
     category |-> "general", created_by |-> "seed", a_count |-> 0, b_count |-> 0]

\* body.model_dump() updated with zero counts
CreateDoc(body) ==
    [option_a |-> body.option_a, option_b |-> body.option_b,
     category |-> body.category, created_by |-> body.created_by,
     a_count |-> 0, b_count |-> 0]

\* the stored form of a document: the inserted fields and its _id
WithId(doc, oid) ==
    [id |-> oid, option_a |-> doc.option_a, option_b |-> doc.option_b,
     category |-> doc.category, created_by |-> doc.created_by,
     a_count |-> doc.a_count, b_count |-> doc.b_count]

\* _serialize: the identifier becomes its text form, the rest is copied
Serialize(d) ==
    [id |-> OidStr(d.id), option_a |-> d.option_a, option_b |-> d.option_b,
     category |-> d.category, created_by |-> d.created_by,
     a_count |-> d.a_count, b_count |-> d.b_count]

(* ------------------------- collection calls ---------------------------- *)
\* count_documents({})
CountDocuments(c) == Len(c)

\* variant: the document is stored twice
InsertOne_Twice(c, doc, oid) == Append(Append(c, WithId(doc, oid)), WithId(doc, oid))

\* insert_one: the document is stored under a generated identifier
InsertOne(c, doc, oid) == Append(c, WithId(doc, oid))

\* the positions of the documents matching {"_id": oid}
Matching(c, oid) == {k \in 1..Len(c) : c[k].id = oid}

\* the position find_one_and_update works on: the first match, 0 if none
FirstMatch(c, oid) ==
    IF Matching(c, oid) = {} THEN 0
    ELSE CHOOSE k \in Matching(c, oid) : \A m \in Matching(c, oid) : k <= m

\* variant: {"$set": {field: 1}}
IncField_Set(d, field) == [d EXCEPT ![field] = 1]

\* variant: {"$inc": {"a_count": 1, "b_count": 1}}
IncField_Both(d, field) == [d EXCEPT !.a_count = @ + 1, !.b_count = @ + 1]

\* {"$inc": {field: 1}}
IncField(d, field) == [d EXCEPT ![field] = @ + 1]

\* the collection after find_one_and_update({"_id": oid}, {"$inc": {field: 1}})
FindOneAndUpdate(c, oid, field) ==
    [k \in 1..Len(c) |-> IF k = FirstMatch(c, oid) THEN IncField(c[k], field) ELSE c[k]]

\* variant: return_document left at its default, the document before the update
ReturnDocument_Before(c, oid, field) ==
    IF FirstMatch(c, oid) = 0 THEN << >> ELSE << c[FirstMatch(c, oid)] >>

\* what find_one_and_update returns with return_document=True: the document
\* as it is after the update, no document when nothing matches
ReturnDocument(c, oid, field) ==
    IF FirstMatch(c, oid) = 0 THEN << >>
    ELSE << FindOneAndUpdate(c, oid, field)[FirstMatch(c, oid)] >>

\* variant: sort [("a_count", -1)]
Before_IgnoresB(d, e) == d.a_count > e.a_count

\* sort [("a_count", -1), ("b_count", -1)]: d comes before e
Before(d, e) ==
    \/ d.a_count > e.a_count
    \/ d.a_count = e.a_count /\ d.b_count > e.b_count

RECURSIVE InsertSorted(_, _)
\* d placed behind every document of the sorted s that it does not come before
InsertSorted(s, d) ==
    IF s = << >> THEN << d >>
    ELSE IF Before(d, Head(s)) THEN << d >> \o s
    ELSE << Head(s) >> \o InsertSorted(Tail(s), d)

RECURSIVE SortDocs(_)
\* the collection sorted, documents of equal rank in their natural order
SortDocs(c) ==
    IF c = << >> THEN << >>
    ELSE InsertSorted(SortDocs(SubSeq(c, 1, Len(c) - 1)), c[Len(c)])

\* cursor.limit(n): n = 0 is no limit
Limit(s, n) == IF n = 0 \/ n >= Len(s) THEN s ELSE SubSeq(s, 1, n)

\* find({}).sort(...).limit(limit)
FindTop(c, limit) == Limit(SortDocs(c), limit)

\* variant: the starter set is inserted whatever the count
SeedNeeded_Always(count) == count >= 0

\* variant: the starter set is never inserted
SeedNeeded_Never(count) == count < 0

\* the test of _ensure_seeded on the count it has read
SeedNeeded(count) == count = 0

\* "a_count" if option == "a" else "b_count"
FieldOf(option) == IF option = "a" THEN "a_count" ELSE "b_count"

(* ------------------------------ requests ------------------------------- *)
Bodies ==
    {[option_a |-> "eat cake", option_b |-> "eat pie",
      category |-> "food", created_by |-> "kid"]}

NoBody == [option_a |-> "", option_b |-> "", category |-> "", created_by |-> None]

\* identifier texts a vote may carry: the second identifier assigned (no
\* document has it while fewer than two are stored), and two that do not
\* parse (a digit short, and not hexadecimal)
SecondOid == OidStr(NewObjectId(2))
ShortOid == SubSeq(SecondOid, 1, OidHexLen - 1)
NonHexOid == [SecondOid EXCEPT ![1] = "G"]

Votes ==
    {<<SecondOid, "a">>, <<SecondOid, "b">>, <<ShortOid, "a">>, <<NonHexOid, "b">>}

\* values of the limit query parameter
TopLimits == {2}

Req(kind, pid, option, body, limit) ==
    [kind |-> kind, prompt_id |-> pid, option |-> option, body |-> body,
     limit |-> limit]

Requests ==
    {Req("random", << >>, "", NoBody, 0), Req("test", << >>, "", NoBody, 0)}
    \cup {Req("create", << >>, "", b, 0) : b \in Bodies}
    \cup {Req("vote", v[1], v[2], NoBody, 0) : v \in Votes}
    \cup {Req("top", << >>, "", NoBody, n) : n \in TopLimits}

FirstPc(kind) == IF kind = "random" THEN "seed_check" ELSE kind

(* ------------------------------- state --------------------------------- *)
VARIABLES
    db,          \* TRUE when the storage handle is configured (db is not None)
    coll,        \* db["prompt"]: the stored documents in natural order
    oidCount,    \* number of identifiers generated so far
    insertedBy,  \* history: per document, the request that inserted it
    reqs         \* the requests issued: input, where the handler stands
                 \* (pc, idx), and as history the outcome: status (0 until
                 \* answered), resp (the documents of the body), calls
                 \* (storage calls made), observed (the count read by
                 \* _ensure_seeded, -1 if none), emptyAtStart

vars == <<db, coll, oidCount, insertedBy, reqs>>

Rids == 1..Len(reqs)
InFlight == {r \in Rids : reqs[r].pc # "done"}
OfKind(kind) == {r \in Rids : reqs[r].req.kind = kind}

Init ==
    /\ db \in BOOLEAN
    /\ coll = << >>
    /\ oidCount = 0
    /\ insertedBy = << >>
    /\ reqs = << >>

\* request q arrives and a free worker starts its handler
Accept(q) ==
    /\ Cardinality(InFlight) < NumWorkers
    /\ reqs' = Append(reqs,
            [req |-> q, pc |-> FirstPc(q.kind), idx |-> 0,
             status |-> 0, resp |-> << >>, calls |-> 0,
             observed |-> -1, emptyAtStart |-> (db /\ coll = << >>)])
    /\ UNCHANGED <<db, coll, oidCount, insertedBy>>

\* Under Spec a GetRandomPrompt is issued only while no other one is being
\* handled; overlapping GetRandomPrompt requests are the subject of SpecRace.
Start ==
    /\ Len(reqs) < MaxRequests
    /\ \E q \in Requests :
        /\ q.kind = "random" => OfKind("random") \cap InFlight = {}
        /\ Accept(q)

\* the requests of the seeding race: GetRandomPrompt only
StartRace ==
    /\ Len(reqs) < MaxRaceRequests
    /\ Accept(Req("random", << >>, "", NoBody, 0))

\* the handler of request r returns: status and body are recorded
Respond(r, status, body, ncalls) ==
    reqs' = [reqs EXCEPT ![r].status = status, ![r].resp = body,
                         ![r].calls = @ + ncalls,
                         ![r].pc = "done", ![r].idx = 0]

\* test_database: list_collection_names when the handle is set
TestDatabase(r) ==
    /\ reqs[r].pc = "test"
    /\ Respond(r, 200, << >>, IF db THEN 1 ELSE 0)
    /\ UNCHANGED <<db, coll, oidCount, insertedBy>>

\* _ensure_seeded up to its test of the count
SeedCheck(r) ==
    /\ reqs[r].pc = "seed_check"
    /\ IF ~db
       THEN Respond(r, 500, << >>, 0)
       ELSE reqs' = [reqs EXCEPT
                ![r].calls = @ + 1,
                ![r].observed = CountDocuments(coll),
                ![r].pc = IF SeedNeeded(CountDocuments(coll))
                          THEN "seed_insert" ELSE "sample",
                ![r].idx = IF SeedNeeded(CountDocuments(coll)) THEN 1 ELSE 0]
    /\ UNCHANGED <<db, coll, oidCount, insertedBy>>

\* one turn of the loop of _ensure_seeded: one insert_one
SeedInsert(r) ==
    /\ reqs[r].pc = "seed_insert"
    /\ coll' = InsertOne(coll, SeedDoc(reqs[r].idx), NewObjectId(oidCount + 1))
    /\ oidCount' = oidCount + 1
    /\ insertedBy' = Append(insertedBy, r)
    /\ reqs' = [reqs EXCEPT
            ![r].calls = @ + 1,
            ![r].idx = IF @ < Len(STARTER_PROMPTS) THEN @ + 1 ELSE 0,
            ![r].pc = IF reqs[r].idx < Len(STARTER_PROMPTS)
                      THEN "seed_insert" ELSE "sample"]
    /\ UNCHANGED db

\* get_random_prompt after _ensure_seeded: $sample of size 1
Sample(r) ==
    /\ reqs[r].pc = "sample"
    /\ IF coll = << >>
       THEN Respond(r, 404, << >>, 1)
       ELSE \E k \in 1..Len(coll) : Respond(r, 200, << Serialize(coll[k]) >>, 1)
    /\ UNCHANGED <<db, coll, oidCount, insertedBy>>

\* create_prompt
CreatePrompt(r) ==
    /\ reqs[r].pc = "create"
    /\ IF ~db
       THEN /\ Respond(r, 500, << >>, 0)
            /\ UNCHANGED <<coll, oidCount, insertedBy>>
       ELSE LET doc == CreateDoc(reqs[r].req.body)
                oid == NewObjectId(oidCount + 1)
            IN  /\ coll' = InsertOne(coll, doc, oid)
                /\ oidCount' = oidCount + 1
                /\ insertedBy' = Append(insertedBy, r)
                /\ Respond(r, 200, << Serialize(WithId(doc, oid)) >>, 1)
    /\ UNCHANGED db

\* vote
Vote(r) ==
    /\ reqs[r].pc = "vote"
    /\ LET q == reqs[r].req IN
       IF ~db
       THEN /\ Respond(r, 500, << >>, 0)
            /\ coll' = coll
       ELSE IF ~ObjectIdValid(q.prompt_id)
       THEN /\ Respond(r, 400, << >>, 0)
            /\ coll' = coll
       ELSE LET oid == ObjectIdOf(q.prompt_id)
                field == FieldOf(q.option)
                updated == ReturnDocument(coll, oid, field)
            IN  /\ coll' = FindOneAndUpdate(coll, oid, field)
                /\ IF updated = << >>
                   THEN Respond(r, 404, << >>, 1)
                   ELSE Respond(r, 200, << Serialize(updated[1]) >>, 1)
    /\ UNCHANGED <<db, oidCount, insertedBy>>

\* top_prompts
TopPrompts(r) ==
    /\ reqs[r].pc = "top"
    /\ IF ~db
       THEN Respond(r, 500, << >>, 0)
       ELSE LET docs == FindTop(coll, reqs[r].req.limit)
            IN  Respond(r, 200, [k \in 1..Len(docs) |-> Serialize(docs[k])], 1)
    /\ UNCHANGED <<db, coll, oidCount, insertedBy>>

Next ==
    \/ Start
    \/ \E r \in Rids : TestDatabase(r)
    \/ \E r \in Rids : SeedCheck(r)
    \/ \E r \in Rids : SeedInsert(r)
    \/ \E r \in Rids : Sample(r)
    \/ \E r \in Rids : CreatePrompt(r)
    \/ \E r \in Rids : Vote(r)
    \/ \E r \in Rids : TopPrompts(r)

Spec == Init /\ [][Next]_vars

\* concurrent GetRandomPrompt requests on a fresh collection
NextRace ==
    \/ StartRace
    \/ \E r \in Rids : SeedCheck(r)
    \/ \E r \in Rids : SeedInsert(r)
    \/ \E r \in Rids : Sample(r)

SpecRace == Init /\ [][NextRace]_vars

(* ===================== properties of the service ======================= *)
Min(a, b) == IF a <= b THEN a ELSE b

Done(r) == reqs[r].pc = "done"
Kind(r) == reqs[r].req.kind

\* the rows request r has inserted
RowsBy(r) == {k \in 1..Len(insertedBy) : insertedBy[k] = r}

\* a text in the store's identifier format: 24 hexadecimal digits
HexChars == {LowerHex[i] : i \in 1..HexBase} \cup {UpperHex[i] : i \in 1..HexBase}
WellFormed(s) == DOMAIN s = 1..OidHexLen /\ \A i \in DOMAIN s : s[i] \in HexChars

\* the identifier texts of the vote requests that are in that format, and
\* the identifier each of them denotes
WellFormedTexts == {v[1] : v \in {w \in Votes : WellFormed(w[1])}}
Denotes == [s \in WellFormedTexts |-> HexValue(s)]

\* the canonical text of the identifiers a behaviour can assign
TextOf == [n \in 0..(Len(STARTER_PROMPTS) * (MaxRequests + MaxRaceRequests)) |->
              HexDigitsOf(n, OidHexLen)]

\* the votes for option on the document with identifier oid that were accepted
Accepted(oid, option) ==
    {r \in OfKind("vote") :
        /\ reqs[r].status = 200
        /\ reqs[r].req.option = option
        /\ reqs[r].req.prompt_id \in WellFormedTexts
        /\ Denotes[reqs[r].req.prompt_id] = oid}

\* the value a response document shows for the counter of option
Shown(doc, option) == IF option = "a" THEN doc.a_count ELSE doc.b_count

\* the vote requests whose prompt_id does not parse
Malformed == {r \in OfKind("vote") : reqs[r].req.prompt_id \notin WellFormedTexts}

\* request r is answered in this step
Answers(r) == reqs[r].pc # "done" /\ reqs'[r].pc = "done"

(* ------------------------------- C1 ------------------------------------ *)
\* C1: no vote's increment is lost: in every state, each stored prompt's
\* a_count is exactly the number of accepted "a" votes on it and its b_count
\* the number of accepted "b" votes, however the votes were interleaved.
C1_NoLostVotes ==
    \A k \in 1..Len(coll) :
        /\ coll[k].a_count = Cardinality(Accepted(coll[k].id, "a"))
        /\ coll[k].b_count = Cardinality(Accepted(coll[k].id, "b"))

\* two "a" votes on one prompt were handled at the same time (the one issued
\* first was applied second) and both increments are in the counter
C1_Witness ==
    \E k \in 1..Len(coll) : \E r1, r2 \in Accepted(coll[k].id, "a") :
        /\ r1 < r2
        /\ reqs[r1].resp[1].a_count > reqs[r2].resp[1].a_count
        /\ coll[k].a_count = 2

(* ------------------------------- C2 ------------------------------------ *)
\* C2 as claimed: a vote whose prompt_id does not parse is answered 400 in
\* every state of the service, without a storage call.
C2_Original ==
    \A r \in Malformed : Done(r) => reqs[r].status = 400 /\ reqs[r].calls = 0

\* C2 amended: a vote whose prompt_id does not parse makes no storage call
\* and is never answered 404; it is answered 400 when the storage handle is
\* configured and 500 when it is not.
C2_Amended ==
    \A r \in Malformed :
        Done(r) => /\ reqs[r].status = (IF db THEN 400 ELSE 500)
                   /\ reqs[r].calls = 0

C2_Witness ==
    /\ \E r \in Malformed : Done(r) /\ reqs[r].status = 400
    /\ \E r \in OfKind("vote") \ Malformed : reqs[r].status = 404

(* ------------------------------- C3 ------------------------------------ *)
\* the vote request r is accepted in this step for the document d
AcceptedNow(r, d) ==
    /\ Kind(r) = "vote"
    /\ Answers(r)
    /\ reqs'[r].status = 200
    /\ reqs[r].req.prompt_id \in WellFormedTexts
    /\ Denotes[reqs[r].req.prompt_id] = d.id

C3_Step ==
    /\ Len(coll') >= Len(coll)
    /\ \A k \in 1..Len(coll) :
        \/ coll'[k] = coll[k]
        \/ \E r \in Rids :
            /\ AcceptedNow(r, coll[k])
            /\ coll'[k].id = coll[k].id
            /\ coll'[k].option_a = coll[k].option_a
            /\ coll'[k].option_b = coll[k].option_b
            /\ coll'[k].category = coll[k].category
            /\ coll'[k].created_by = coll[k].created_by
            /\ IF reqs[r].req.option = "a"
               THEN /\ coll'[k].a_count = coll[k].a_count + 1
                    /\ coll'[k].b_count = coll[k].b_count
               ELSE /\ coll'[k].a_count = coll[k].a_count
                    /\ coll'[k].b_count = coll[k].b_count + 1

\* C3: in every step a stored prompt stays as it is, unless the step accepts
\* a vote on it, which raises the voted counter by exactly 1 and leaves the
\* other counter and every other field alone; no prompt is ever deleted.
C3_OnlyVotesChange == [][C3_Step]_vars

\* a prompt has taken a vote while another vote failed
C3_Witness ==
    /\ \E k \in 1..Len(coll) : coll[k].a_count + coll[k].b_count = 1
    /\ \E r \in OfKind("vote") : Done(r) /\ reqs[r].status # 200

(* ------------------------------- C4 ------------------------------------ *)
C4_Step ==
    \A r \in Rids : \A k \in 1..Len(coll) :
        AcceptedNow(r, coll[k]) =>
            /\ reqs'[r].resp[1].a_count = coll'[k].a_count
            /\ reqs'[r].resp[1].b_count = coll'[k].b_count
            /\ Shown(reqs'[r].resp[1], reqs[r].req.option)
                 = Shown(coll[k], reqs[r].req.option) + 1

C4_Distinct ==
    \A k \in 1..Len(coll) : \A o \in {"a", "b"} :
        {Shown(reqs[r].resp[1], o) : r \in Accepted(coll[k].id, o)}
            = 1..Cardinality(Accepted(coll[k].id, o))

\* C4: the response of an accepted vote shows the prompt's counters as the
\* vote's own increment left them; so the responses of the N accepted votes
\* for one option of one prompt (prior count 0) show exactly 1 .. N.
C4_FreshCounts == [][C4_Step]_vars /\ []C4_Distinct

\* two "b" votes on one prompt answered with 1 and 2
C4_Witness ==
    \E k \in 1..Len(coll) : \E r1, r2 \in Accepted(coll[k].id, "b") :
        /\ reqs[r1].resp[1].b_count = 1
        /\ reqs[r2].resp[1].b_count = 2

(* ------------------------------- C5 ------------------------------------ *)
NumStarters == Len(STARTER_PROMPTS)

Pair(doc) == <<doc.option_a, doc.option_b>>

\* the rows request r has inserted, in the order of their insertion
RECURSIVE RowSeq(_, _)
RowSeq(r, n) ==
    IF n = 0 THEN << >>
    ELSE IF insertedBy[n] = r THEN Append(RowSeq(r, n - 1), coll[n])
    ELSE RowSeq(r, n - 1)

\* the GetRandomPrompt requests answered while the handle is configured
RandomDone == {r \in OfKind("random") : Done(r) /\ db}

\* C5 as claimed: a GetRandomPrompt issued on a configured, empty, unseeded
\* collection inserts the starter prompts and returns one of the 6 starter
\* pairs; one issued on a non-empty collection inserts nothing.
C5_Original ==
    \A r \in RandomDone :
        IF reqs[r].emptyAtStart
        THEN /\ Cardinality(RowsBy(r)) = NumStarters
             /\ reqs[r].status = 200
             /\ Pair(reqs[r].resp[1]) \in StarterPairs
        ELSE RowsBy(r) = {}

\* C5 amended: a GetRandomPrompt that reads count 0 inserts the 6 starter
\* prompts in order (category "general", created_by "seed", counts 0 apart
\* from votes accepted since) and returns a stored prompt, which is one of
\* the 6 starter pairs unless a CreatePrompt has inserted another prompt; a
\* GetRandomPrompt that reads a non-zero count inserts nothing.
C5_Amended ==
    \A r \in RandomDone :
        /\ reqs[r].status = 200
        /\ \E k \in 1..Len(coll) :
            /\ reqs[r].resp[1].id = TextOf[coll[k].id]
            /\ Pair(reqs[r].resp[1]) = Pair(coll[k])
        /\ (\A k \in 1..Len(coll) : Kind(insertedBy[k]) # "create")
              => Pair(reqs[r].resp[1]) \in StarterPairs
        /\ IF reqs[r].observed = 0
           THEN LET rows == RowSeq(r, Len(coll)) IN
                /\ Len(rows) = NumStarters
                /\ \A i \in 1..Len(rows) :
                    /\ Pair(rows[i]) = STARTER_PROMPTS[i]
                    /\ rows[i].category = "general"
                    /\ rows[i].created_by = "seed"
                    /\ rows[i].a_count = Cardinality(Accepted(rows[i].id, "a"))
                    /\ rows[i].b_count = Cardinality(Accepted(rows[i].id, "b"))
           ELSE RowsBy(r) = {}

\* a request that found the collection empty has seeded it and returned a
\* starter pair, and a later one has found it non-empty
C5_Witness ==
    \E r1, r2 \in RandomDone :
        /\ reqs[r1].emptyAtStart /\ reqs[r1].observed = 0
        /\ Cardinality(RowsBy(r1)) = NumStarters
        /\ Pair(reqs[r1].resp[1]) \in StarterPairs
        /\ reqs[r2].observed = NumStarters

(* ------------------------------- C6 ------------------------------------ *)
CreateDone == {r \in OfKind("create") : Done(r) /\ db}

\* C6: every successful CreatePrompt returns zero counts and an identifier
\* no other stored prompt has (created or seeded, before or concurrently);
\* it adds exactly one prompt, the one it returns.
C6_FreshIdentifier ==
    /\ \A r \in CreateDone :
        /\ reqs[r].status = 200
        /\ reqs[r].resp[1].a_count = 0 /\ reqs[r].resp[1].b_count = 0
        /\ Cardinality(RowsBy(r)) = 1
        /\ \A k \in RowsBy(r) :
            /\ reqs[r].resp[1].id = TextOf[coll[k].id]
            /\ Pair(coll[k]) = Pair(reqs[r].req.body)
            /\ coll[k].category = reqs[r].req.body.category
            /\ coll[k].created_by = reqs[r].req.body.created_by
            /\ \A m \in 1..Len(coll) :
                m # k => /\ coll[m].id # coll[k].id
                         /\ TextOf[coll[m].id] # reqs[r].resp[1].id
    /\ \A r \in OfKind("create") : ~Done(r) => RowsBy(r) = {}

\* a prompt was created while a seeding was under way, and another after it
C6_Witness ==
    \E r1, r2 \in CreateDone : \E k1 \in RowsBy(r1), k2 \in RowsBy(r2) :
        /\ k1 > 1 /\ k1 < k2
        /\ \E s \in OfKind("random") : \E i, j \in RowsBy(s) : i < k1 /\ k1 < j

(* ------------------------------- C7 ------------------------------------ *)
\* a response document ranks at least as high as another
RanksGeq(d, e) ==
    \/ d.a_count > e.a_count
    \/ d.a_count = e.a_count /\ d.b_count >= e.b_count

C7_Step ==
    \A r \in OfKind("top") :
        (Answers(r) /\ db /\ reqs[r].req.limit >= 1) =>
            LET out == reqs'[r].resp IN
            /\ reqs'[r].status = 200
            /\ Len(out) = Min(reqs[r].req.limit, Len(coll))
            /\ \A i \in 1..Len(out) : \E k \in 1..Len(coll) :
                /\ out[i].id = TextOf[coll[k].id]
                /\ Pair(out[i]) = Pair(coll[k])
                /\ out[i].category = coll[k].category
                /\ out[i].created_by = coll[k].created_by
                /\ out[i].a_count = coll[k].a_count
                /\ out[i].b_count = coll[k].b_count
            /\ \A i, j \in 1..Len(out) : i # j => out[i].id # out[j].id
            /\ \A i, j \in 1..Len(out) : i < j => RanksGeq(out[i], out[j])
            /\ \A k \in 1..Len(coll) :
                (\A i \in 1..Len(out) : out[i].id # TextOf[coll[k].id])
                    => \A i \in 1..Len(out) : RanksGeq(out[i], coll[k])

\* C7: for every limit >= 1 TopPrompts returns min(limit, stored prompts)
\* distinct stored prompts in order of a_count descending, then b_count
\* descending, and no prompt left out ranks strictly higher than a returned
\* one.
C7_TopSorted == [][C7_Step]_vars

\* a ranking cut by its limit whose first record leads on b_count only and
\* is not the first stored prompt
C7_Witness ==
    \E r \in OfKind("top") :
        /\ reqs[r].status = 200
        /\ Len(reqs[r].resp) = reqs[r].req.limit
        /\ Len(coll) > reqs[r].req.limit
        /\ reqs[r].resp[1].a_count = reqs[r].resp[2].a_count
        /\ reqs[r].resp[1].b_count > reqs[r].resp[2].b_count
        /\ reqs[r].resp[1].id # OidStr(coll[1].id)

(* ------------------------------- C8 ------------------------------------ *)
\* the rows of the starter set among the documents of a response
SeedShown(out) == {i \in 1..Len(out) : out[i].created_by = "seed"}

\* C8 as claimed: no request ever observes part of another request's writes:
\* a ranking that was not cut by its limit shows whole starter sets only.
C8_Original ==
    \A r \in OfKind("top") :
        (reqs[r].status = 200 /\ Len(reqs[r].resp) < reqs[r].req.limit)
            => Cardinality(SeedShown(reqs[r].resp)) % NumStarters = 0

\* C8 amended: every storage call adds exactly one document or none, and
\* CreatePrompt, Vote, TopPrompts and the diagnostics make at most one call,
\* so none of their writes is ever seen in part; a seeding GetRandomPrompt
\* makes one insert call per starter prompt, so between 1 and 5 of
\* its rows can be seen by other requests.
C8_Amended ==
    /\ Len(coll) = Len(insertedBy)
    /\ Len(coll) = oidCount
    /\ \A r \in Rids :
        IF Kind(r) = "random"
        THEN /\ Cardinality(RowsBy(r)) <= NumStarters
             /\ reqs[r].calls <= NumStarters + 2
             /\ reqs[r].pc = "seed_insert" => Cardinality(RowsBy(r)) = reqs[r].idx - 1
        ELSE /\ reqs[r].calls <= 1
             /\ Cardinality(RowsBy(r))
                  = (IF Kind(r) = "create" /\ reqs[r].status = 200 THEN 1 ELSE 0)

\* a ranking has shown a part of the starter set while the seeding went on
C8_Witness ==
    \E r \in OfKind("top") : \E s \in OfKind("random") :
        /\ reqs[r].status = 200
        /\ Len(reqs[r].resp) < reqs[r].req.limit
        /\ Cardinality(SeedShown(reqs[r].resp)) \in 1..(NumStarters - 1)
        /\ reqs[s].pc = "seed_insert"

(* ------------------------------- C9 ------------------------------------ *)
\* the rows inserted by the seeding routine
SeedRows == {k \in 1..Len(coll) : Kind(insertedBy[k]) = "random"}

\* the requests whose count_documents returned 0
SawEmpty == {r \in OfKind("random") : reqs[r].observed = 0}

\* C9: the rows inserted by seeding are at most 6 per request that read
\* count 0, and exactly 6 per such request once all requests are answered
\* (so requests that do not overlap seed once; two that both read 0 seed
\* twice).
C9_SeedRace ==
    /\ Cardinality(SeedRows) <= NumStarters * Cardinality(SawEmpty)
    /\ InFlight = {} => Cardinality(SeedRows) = NumStarters * Cardinality(SawEmpty)
    /\ \A r \in OfKind("random") : reqs[r].observed # 0 => RowsBy(r) = {}

\* two requests have both read count 0 and every starter pair is stored twice
C9_Witness ==
    /\ Cardinality(SawEmpty) = 2
    /\ Cardinality(SeedRows) = 2 * NumStarters
    /\ \A i \in 1..NumStarters :
        Cardinality({k \in SeedRows : Pair(coll[k]) = STARTER_PROMPTS[i]}) = 2

(* ------------------------------- C10 ----------------------------------- *)
\* C10: with the storage handle configured GetRandomPrompt is never answered
\* 404: when it samples, the collection holds at least one prompt.
C10_NeverNotFound ==
    /\ \A r \in OfKind("random") : db /\ Done(r) => reqs[r].status # 404
    /\ \A r \in OfKind("random") : db /\ reqs[r].pc = "sample" => coll # << >>

\* a request that did not seed samples a collection other requests filled
C10_Witness ==
    \E r \in OfKind("random") :
        /\ reqs[r].pc = "sample"
        /\ reqs[r].observed > 0
        /\ RowsBy(r) = {}
        /\ \E k \in 1..Len(coll) : Kind(insertedBy[k]) = "create"

====
